---- MODULE Spec2Model ----
(***************************************************************************)
(* Model of the binary search tree visualizer of src/src/App.tsx: the      *)
(* persistent insertion insertIntoBST, the slot layout calculatePositions, *)
(* the centering getHorizontalOffset, the edge list renderLines, and the   *)
(* App component's state with its handlers handleInsert and resetTree and  *)
(* the offset effect.                                                      *)
(*                                                                         *)
(* Tree nodes are JavaScript objects; they live in `heap`, a sequence of   *)
(* node records addressed by their index, so that reference identity       *)
(* (structural sharing) is part of the state.                              *)
(*                                                                         *)
(* Coordinates x and the offset are dyadic rationals in the source         *)
(* (520 / 2^level * (position + 0.5)); every one of them is exactly        *)
(* representable as a double, and the model stores them multiplied by      *)
(* XScale, as integers.  y and level are integers as they are.             *)
(***************************************************************************)
EXTENDS Integers, Sequences, FiniteSets, TLC

(* null: the absent child / the empty tree *)
NULL == 0

predefinedValues == {10, 20, 30, 40, 50, 60, 70}
canvasWidth == 520
canvasHeight == 480
containerWidth == 520
verticalSpacing == 80
topMargin == 20
nodeRadius == 20

(* A tree of n nodes has levels 0 .. n-1, so 2^(level+1) divides XScale. *)
XScale == 2 ^ Cardinality(predefinedValues)

VARIABLES
    heap,        \* the TreeNode objects allocated in this session
    tree,        \* useState tree: the root's address, or NULL
    prevTree,    \* `prev` of the last setTree updater: the tree insertIntoBST was given
    usedValues,  \* useState usedValues: the values inserted, in order
    treeOffset,  \* useState treeOffset, times XScale
    event        \* the last click handled: [op, value]

vars == <<heap, tree, prevTree, usedValues, treeOffset, event>>

Range(s) == {s[i] : i \in DOMAIN s}

(* Array.prototype.includes *)
includes(s, v) == v \in Range(s)

(* ------------------------------ insertIntoBST --------------------------- *)

(* a fresh object literal: the heap grows by one node *)
alloc(h, n) == [heap |-> Append(h, n), root |-> Len(h) + 1]

RECURSIVE insertIntoBST(_, _, _)

(* faulty variant: the comparison the wrong way round *)
insertIntoBST_flipped(h, root, value) ==
    IF root = NULL
    THEN alloc(h, [id |-> value, left |-> NULL, right |-> NULL])
    ELSE IF value > h[root].id
         THEN LET r == insertIntoBST(h, h[root].left, value)
              IN  alloc(r.heap, [id |-> h[root].id, left |-> r.root, right |-> h[root].right])
         ELSE LET r == insertIntoBST(h, h[root].right, value)
              IN  alloc(r.heap, [id |-> h[root].id, left |-> h[root].left, right |-> r.root])

(* faulty variant: the child link assigned on the node itself instead of on a copy *)
insertIntoBST_inPlace(h, root, value) ==
    IF root = NULL
    THEN alloc(h, [id |-> value, left |-> NULL, right |-> NULL])
    ELSE IF value < h[root].id
         THEN LET r == insertIntoBST(h, h[root].left, value)
              IN  [heap |-> [r.heap EXCEPT ![root].left = r.root], root |-> root]
         ELSE LET r == insertIntoBST(h, h[root].right, value)
              IN  [heap |-> [r.heap EXCEPT ![root].right = r.root], root |-> root]

insertIntoBST(h, root, value) ==
    IF root = NULL
    THEN alloc(h, [id |-> value, left |-> NULL, right |-> NULL])
    ELSE IF value < h[root].id
         THEN LET r == insertIntoBST(h, h[root].left, value)
              IN  alloc(r.heap, [id |-> h[root].id, left |-> r.root, right |-> h[root].right])
         ELSE LET r == insertIntoBST(h, h[root].right, value)
              IN  alloc(r.heap, [id |-> h[root].id, left |-> h[root].left, right |-> r.root])

(* ---------------------------- calculatePositions ------------------------ *)

RECURSIVE calculatePositions(_, _, _, _, _)

(* faulty variant: the node at the left edge of its slot, not at its centre *)
calculatePositions_noHalf(h, node, level, position, map) ==
    IF node = NULL THEN map
    ELSE LET slots == 2 ^ level
             horizontalSpacing == (containerWidth * XScale) \div slots
             x == horizontalSpacing * position
             y == topMargin + level * verticalSpacing
             m0 == (h[node].id :> [x |-> x, y |-> y, level |-> level]) @@ map
             m1 == IF h[node].left /= NULL
                   THEN calculatePositions(h, h[node].left, level + 1, position * 2, m0)
                   ELSE m0
         IN  IF h[node].right /= NULL
             THEN calculatePositions(h, h[node].right, level + 1, position * 2 + 1, m1)
             ELSE m1

(* faulty variant: the right child given the left child's slot *)
calculatePositions_sameSlot(h, node, level, position, map) ==
    IF node = NULL THEN map
    ELSE LET slots == 2 ^ level
             horizontalSpacing == (containerWidth * XScale) \div slots
             x == (horizontalSpacing * (2 * position + 1)) \div 2
             y == topMargin + level * verticalSpacing
             m0 == (h[node].id :> [x |-> x, y |-> y, level |-> level]) @@ map
             m1 == IF h[node].left /= NULL
                   THEN calculatePositions(h, h[node].left, level + 1, position * 2, m0)
                   ELSE m0
         IN  IF h[node].right /= NULL
             THEN calculatePositions(h, h[node].right, level + 1, position * 2, m1)
             ELSE m1

calculatePositions(h, node, level, position, map) ==
    IF node = NULL THEN map
    ELSE LET slots == 2 ^ level
             horizontalSpacing == (containerWidth * XScale) \div slots
             x == (horizontalSpacing * (2 * position + 1)) \div 2
             y == topMargin + level * verticalSpacing
             m0 == (h[node].id :> [x |-> x, y |-> y, level |-> level]) @@ map
             m1 == IF h[node].left /= NULL
                   THEN calculatePositions(h, h[node].left, level + 1, position * 2, m0)
                   ELSE m0
         IN  IF h[node].right /= NULL
             THEN calculatePositions(h, h[node].right, level + 1, position * 2 + 1, m1)
             ELSE m1

(* new Map() *)
emptyMap == [k \in {} |-> 0]

(* useMemo(() => calculatePositions(tree), [tree]) *)
positionsOf(h, t) == calculatePositions(h, t, 0, 0, emptyMap)

positions == positionsOf(heap, tree)

(* --------------------------- getHorizontalOffset ------------------------ *)

(* faulty variant: the canvas width not halved *)
getHorizontalOffset_fullWidth(pos, width) ==
    IF DOMAIN pos = {} THEN 0
    ELSE LET xs == {pos[k].x : k \in DOMAIN pos}
             minX == CHOOSE a \in xs : \A b \in xs : a <= b
             maxX == CHOOSE a \in xs : \A b \in xs : a >= b
             treeWidth == maxX - minX
         IN  width * XScale - (minX + treeWidth \div 2)

getHorizontalOffset(pos, width) ==
    IF DOMAIN pos = {} THEN 0
    ELSE LET xs == {pos[k].x : k \in DOMAIN pos}
             minX == CHOOSE a \in xs : \A b \in xs : a <= b
             maxX == CHOOSE a \in xs : \A b \in xs : a >= b
             treeWidth == maxX - minX
         IN  (width * XScale) \div 2 - (minX + treeWidth \div 2)

(* -------------------------------- renderLines --------------------------- *)

(* faulty variant: the offset left out at the child's end *)
line_noOffsetAtChild(key, from, to, xOffset) ==
    [key |-> key,
     x1 |-> from.x + xOffset, y1 |-> from.y + nodeRadius,
     x2 |-> to.x,             y2 |-> to.y - nodeRadius]

line(key, from, to, xOffset) ==
    [key |-> key,
     x1 |-> from.x + xOffset, y1 |-> from.y + nodeRadius,
     x2 |-> to.x + xOffset,   y2 |-> to.y - nodeRadius]

RECURSIVE renderLines(_, _, _, _)

renderLines(h, node, pos, xOffset) ==
    IF node = NULL THEN <<>>
    ELSE LET id == h[node].id
             hasPos == id \in DOMAIN pos
             l == h[node].left
             r == h[node].right
             leftLines ==
                 IF l /= NULL /\ hasPos /\ h[l].id \in DOMAIN pos
                 THEN <<line(<<id, "left">>, pos[id], pos[h[l].id], xOffset)>>
                      \o renderLines(h, l, pos, xOffset)
                 ELSE <<>>
             rightLines ==
                 IF r /= NULL /\ hasPos /\ h[r].id \in DOMAIN pos
                 THEN <<line(<<id, "right">>, pos[id], pos[h[r].id], xOffset)>>
                      \o renderLines(h, r, pos, xOffset)
                 ELSE <<>>
         IN  leftLines \o rightLines

(* renderLines(tree, positions, treeOffset) of the render *)
lines == renderLines(heap, tree, positions, treeOffset)

(* ------------------------------- the component -------------------------- *)

(* faulty variant: the offset recomputed after every insertion *)
offsetEffect_always(h, t, used, offset) ==
    LET o1 == IF t /= NULL /\ Len(used) >= 1
              THEN getHorizontalOffset(positionsOf(h, t), canvasWidth)
              ELSE offset
    IN  IF t = NULL THEN 0 ELSE o1

(* The effect after a render that changed the tree or the history's length. *)
offsetEffect(h, t, used, offset) ==
    LET o1 == IF t /= NULL /\ Len(used) = 1
              THEN getHorizontalOffset(positionsOf(h, t), canvasWidth)
              ELSE offset
    IN  IF t = NULL THEN 0 ELSE o1

Init ==
    /\ heap = <<>>
    /\ tree = NULL
    /\ prevTree = NULL
    /\ usedValues = <<>>
    /\ treeOffset = 0
    /\ event = [op |-> "mount", value |-> 0]

(* faulty variant: no check against usedValues *)
handleInsert_noGuard(value) ==
    /\ event' = [op |-> "insert", value |-> value]
    /\ LET r == insertIntoBST(heap, tree, value)
       IN  /\ heap' = r.heap
           /\ tree' = r.root
           /\ prevTree' = tree
           /\ usedValues' = Append(usedValues, value)
           /\ treeOffset' = offsetEffect(r.heap, r.root, Append(usedValues, value), treeOffset)

handleInsert(value) ==
    /\ event' = [op |-> "insert", value |-> value]
    /\ IF includes(usedValues, value)
       THEN UNCHANGED <<heap, tree, prevTree, usedValues, treeOffset>>
       ELSE LET r == insertIntoBST(heap, tree, value)
            IN  /\ heap' = r.heap
                /\ tree' = r.root
                /\ prevTree' = tree
                /\ usedValues' = Append(usedValues, value)
                /\ treeOffset' = offsetEffect(r.heap, r.root, Append(usedValues, value), treeOffset)

(* faulty variant: the history not cleared *)
resetTree_keepHistory ==
    /\ event' = [op |-> "reset", value |-> 0]
    /\ heap' = <<>>
    /\ tree' = NULL
    /\ prevTree' = NULL
    /\ usedValues' = usedValues
    /\ treeOffset' = offsetEffect(<<>>, NULL, usedValues, 0)

(* After setTree(null) no reference to a node is left: the heap is garbage. *)
resetTree ==
    /\ event' = [op |-> "reset", value |-> 0]
    /\ heap' = <<>>
    /\ tree' = NULL
    /\ prevTree' = NULL
    /\ usedValues' = <<>>
    /\ treeOffset' = offsetEffect(<<>>, NULL, <<>>, 0)

Next ==
    \/ \E value \in predefinedValues : handleInsert(value)
    \/ resetTree

Spec == Init /\ [][Next]_vars

(* ======================= what the claims are stated in ================== *)

RECURSIVE Keys(_, _)
(* the set of keys of the subtree at n *)
Keys(h, n) == IF n = NULL THEN {} ELSE {h[n].id} \cup Keys(h, h[n].left) \cup Keys(h, h[n].right)

RECURSIVE Nodes(_, _)
(* the addresses of the nodes of the subtree at n *)
Nodes(h, n) == IF n = NULL THEN {} ELSE {n} \cup Nodes(h, h[n].left) \cup Nodes(h, h[n].right)

RECURSIVE Size(_, _)
(* the number of nodes of the subtree at n, counted with multiplicity *)
Size(h, n) == IF n = NULL THEN 0 ELSE 1 + Size(h, h[n].left) + Size(h, h[n].right)

RECURSIVE InOrder(_, _)
InOrder(h, n) ==
    IF n = NULL THEN <<>> ELSE InOrder(h, h[n].left) \o <<h[n].id>> \o InOrder(h, h[n].right)

RECURSIVE PreOrder(_, _)
(* the nodes' addresses, parent first, then the left subtree, then the right *)
PreOrder(h, n) ==
    IF n = NULL THEN <<>> ELSE <<n>> \o PreOrder(h, h[n].left) \o PreOrder(h, h[n].right)

RECURSIVE PathTo(_, _, _)
(* the turns from n down to the node of key k: 0 is left, 1 is right *)
PathTo(h, n, k) ==
    IF h[n].id = k THEN <<>>
    ELSE IF k \in Keys(h, h[n].left)
         THEN <<0>> \o PathTo(h, h[n].left, k)
         ELSE <<1>> \o PathTo(h, h[n].right, k)

RECURSIVE SlotOf(_)
(* the slot a path leads to: 0 at the root, 2s to the left, 2s + 1 to the right *)
SlotOf(path) ==
    IF path = <<>> THEN 0
    ELSE 2 * SlotOf(SubSeq(path, 1, Len(path) - 1)) + path[Len(path)]

Sorted(s) == \A i, j \in DOMAIN s : i < j => s[i] < s[j]

(* the side of its parent p the node at address c hangs on *)
SideOf(h, p, c) == IF h[p].left = c THEN "left" ELSE "right"

(* an accepted insertion is the step being taken *)
InsertStep == event'.op = "insert" /\ ~includes(usedValues, event'.value)

(* ---------------------------------- C1 ---------------------------------- *)

(* C1: after any sequence of inserts of distinct values, in any order, from
   the empty tree, every node's left subtree holds only smaller keys and its
   right subtree only keys greater than or equal to it; the in-order
   traversal is ascending and holds exactly the inserted values. *)
C1_BSTInvariant ==
    /\ \A n \in Nodes(heap, tree) :
          /\ \A k \in Keys(heap, heap[n].left) : k < heap[n].id
          /\ \A k \in Keys(heap, heap[n].right) : k >= heap[n].id
    /\ Sorted(InOrder(heap, tree))
    /\ Len(InOrder(heap, tree)) = Len(usedValues)
    /\ Range(InOrder(heap, tree)) = Range(usedValues)

C1_Witness ==
    /\ Len(usedValues) = Cardinality(predefinedValues)
    /\ heap[tree].left /= NULL
    /\ heap[tree].right /= NULL
    /\ usedValues[1] > usedValues[2]

(* ---------------------------------- C2 ---------------------------------- *)

RECURSIVE SharedOffPath(_, _, _, _, _)
(* t2 is t with v inserted: the nodes on the path to v are new (not among
   old), carry the key of the node they replace, and their other child is the
   very node of t; the path ends in a new leaf of key v. *)
SharedOffPath(h2, old, t, t2, v) ==
    /\ t2 \notin old
    /\ IF t = NULL
       THEN h2[t2] = [id |-> v, left |-> NULL, right |-> NULL]
       ELSE /\ h2[t2].id = h2[t].id
            /\ IF v < h2[t].id
               THEN /\ h2[t2].right = h2[t].right
                    /\ SharedOffPath(h2, old, h2[t].left, h2[t2].left, v)
               ELSE /\ h2[t2].left = h2[t].left
                    /\ SharedOffPath(h2, old, h2[t].right, h2[t2].right, v)

(* C2: insertIntoBST(t, v) never changes t: every node that existed before
   the call has the same key and child links after it; the subtrees of t off
   the path to the new node are the very same nodes in the result, and only
   the nodes on that path are newly allocated. *)
C2_Persistent ==
    [][InsertStep =>
         /\ \A a \in DOMAIN heap : a \in DOMAIN heap' /\ heap'[a] = heap[a]
         /\ SharedOffPath(heap', DOMAIN heap, tree, tree', event'.value)
         /\ Cardinality(Nodes(heap', tree') \ DOMAIN heap)
               = Len(PathTo(heap', tree', event'.value)) + 1]_vars

(* the last insertion went left of a root that has a right subtree, which is shared *)
C2_Witness ==
    /\ prevTree /= NULL
    /\ tree /= prevTree
    /\ heap[prevTree].right /= NULL
    /\ heap[prevTree].left /= NULL
    /\ heap[tree].right = heap[prevTree].right
    /\ heap[tree].left /= heap[prevTree].left
    /\ Nodes(heap, prevTree) \cap Nodes(heap, tree) /= {}

(* ---------------------------------- C3 ---------------------------------- *)

(* C3: calculatePositions maps exactly the keys of the tree; a key's level is
   its node's depth, y = 20 + 80 * level and x = (520 / 2^level) * (slot + 0.5)
   with slot 0 at the root, 2s for a left child and 2s + 1 for a right child.
   Inserting 10, 20, 30 gives 10 -> (260, 20, 0), 20 -> (390, 100, 1),
   30 -> (455, 180, 2). *)
C3_Layout ==
    LET pos == positions
    IN
    /\ DOMAIN pos = Keys(heap, tree)
    /\ \A k \in Keys(heap, tree) :
          LET path == PathTo(heap, tree, k)
              lvl == Len(path)
          IN  /\ pos[k].level = lvl
              /\ pos[k].y = 20 + 80 * lvl
              /\ pos[k].x * 2 ^ (lvl + 1) = XScale * 520 * (2 * SlotOf(path) + 1)
    /\ usedValues = <<10, 20, 30>> =>
          pos = (10 :> [x |-> 260 * XScale, y |-> 20, level |-> 0])
                   @@ (20 :> [x |-> 390 * XScale, y |-> 100, level |-> 1])
                   @@ (30 :> [x |-> 455 * XScale, y |-> 180, level |-> 2])

C3_Witness ==
    /\ usedValues = <<40, 20, 60, 10, 30, 50, 70>>
    /\ positions[30].level = 2
    /\ positions[30].x * 8 = XScale * 520 * 3

(* ---------------------------------- C4 ---------------------------------- *)

(* C4: two distinct nodes that calculatePositions places at the same level
   never get the same x. *)
C4_NoCollision ==
    LET pos == positions
    IN  \A k1, k2 \in DOMAIN pos :
            (k1 /= k2 /\ pos[k1].level = pos[k2].level) => pos[k1].x /= pos[k2].x

C4_Witness ==
    LET pos == positions
    IN  \E k1, k2 \in DOMAIN pos :
            /\ k1 /= k2
            /\ pos[k1].level = pos[k2].level
            /\ pos[k1].level >= 2

(* ---------------------------------- C5 ---------------------------------- *)

(* C5: for every tree built from the palette, every node's 40x40 box centred
   at (x + treeOffset, y) lies inside [0, 520] x [0, 480]. *)
C5_FitsInCanvas ==
    LET pos == positions
    IN  \A k \in DOMAIN pos :
            /\ pos[k].x + treeOffset - 20 * XScale >= 0
            /\ pos[k].x + treeOffset + 20 * XScale <= canvasWidth * XScale
            /\ pos[k].y - 20 >= 0
            /\ pos[k].y + 20 <= canvasHeight

(* ---------------------------------- C6 ---------------------------------- *)

(* C6: an insert click for a value already in usedValues leaves the tree, the
   history and the offset unchanged; so in every reachable state no key occurs
   twice in the tree and the tree's keys are exactly the values of usedValues. *)
C6_DuplicateRejected ==
    /\ [](/\ Size(heap, tree) = Cardinality(Keys(heap, tree))
          /\ Keys(heap, tree) = Range(usedValues)
          /\ Len(usedValues) = Cardinality(Range(usedValues)))
    /\ [][(event'.op = "insert" /\ includes(usedValues, event'.value))
             => UNCHANGED <<heap, tree, usedValues, treeOffset>>]_vars

(* a click on a used value that is not the one inserted last *)
C6_Witness ==
    /\ event.op = "insert"
    /\ Len(usedValues) >= 2
    /\ event.value = usedValues[1]

(* ---------------------------------- C7 ---------------------------------- *)

(* C7: a reset, from any state, leads to the empty tree, the empty history
   and offset 0, and every palette value can be inserted again afterwards:
   the next insert click, whatever its value, is accepted. *)
C7_Reset ==
    [][/\ event'.op = "reset" =>
             (tree' = NULL /\ usedValues' = <<>> /\ treeOffset' = 0)
       /\ (event.op = "reset" /\ event'.op = "insert") =>
             /\ event'.value \in predefinedValues
             /\ usedValues' = <<event'.value>>
             /\ Keys(heap', tree') = {event'.value}]_vars

C7_Witness == event.op = "reset" /\ tree = NULL /\ usedValues = <<>>

(* ---------------------------------- C8 ---------------------------------- *)

(* offsets renderLines is tried with *)
Offsets == {0, 0 - 65 * XScale, 13 * XScale}

(* C8: given a tree and the layout of that tree, renderLines emits one segment
   per parent-child edge (nodes - 1 of them, none for an empty tree), in
   pre-order, each from (parent.x + offset, parent.y + 20) to
   (child.x + offset, child.y - 20); for 10 then 20 and offset 0 it is the one
   segment (260, 40) -> (390, 80). *)
C8_Edges ==
    LET pos == positions
        pre == PreOrder(heap, tree)
        all == Nodes(heap, tree)
    IN
    /\ \A off \in Offsets :
          LET ls == renderLines(heap, tree, pos, off)
          IN  /\ Len(ls) = IF tree = NULL THEN 0 ELSE Len(pre) - 1
              /\ \A i \in DOMAIN ls :
                    LET c == pre[i + 1]
                        p == CHOOSE n \in all : heap[n].left = c \/ heap[n].right = c
                        pp == pos[heap[p].id]
                        cp == pos[heap[c].id]
                    IN  /\ ls[i].key = <<heap[p].id, SideOf(heap, p, c)>>
                        /\ ls[i].x1 = pp.x + off
                        /\ ls[i].y1 = pp.y + 20
                        /\ ls[i].x2 = cp.x + off
                        /\ ls[i].y2 = cp.y - 20
    /\ usedValues = <<10, 20>> =>
          renderLines(heap, tree, pos, 0)
             = <<[key |-> <<10, "right">>, x1 |-> 260 * XScale, y1 |-> 40,
                  x2 |-> 390 * XScale, y2 |-> 80]>>

C8_Witness ==
    /\ Len(lines) = 6
    /\ lines[1].key[2] = "left"
    /\ lines[2].key[2] = "right"
    /\ lines[3].key[2] = "right"

(* ---------------------------------- C9 ---------------------------------- *)

(* C9: the offset is recomputed from the layout only at the step where the
   tree goes from empty to one node; every later insert leaves it unchanged,
   and a reset sets it to 0. *)
C9_OffsetHeld ==
    [][/\ (InsertStep /\ tree = NULL) =>
             treeOffset' = getHorizontalOffset(positionsOf(heap', tree'), canvasWidth)
       /\ (event'.op = "insert" /\ tree /= NULL) => treeOffset' = treeOffset
       /\ event'.op = "reset" => treeOffset' = 0]_vars

C9_Witness ==
    /\ event.op = "insert"
    /\ Len(usedValues) = 3
    /\ event.value = usedValues[3]
    /\ heap[tree].right /= NULL
    /\ heap[tree].left = NULL

(* ---------------------------------- C10 --------------------------------- *)

(* C10: treeOffset is 0 in every reachable state: getHorizontalOffset is only
   applied to the layout of a one-node tree, whose node is at x = 260. *)
C10_OffsetZero ==
    /\ treeOffset = 0
    /\ Len(usedValues) = 1 =>
          LET pos == positions
          IN  /\ pos[usedValues[1]].x * 2 = canvasWidth * XScale
              /\ getHorizontalOffset(pos, canvasWidth) = 0

C10_Witness == Len(usedValues) = 1 /\ tree /= NULL /\ event.op = "insert"

====
